---- MODULE Spec2Model ----
(***************************************************************************)
(* Model of src/src/phredgenotypelikelihoods.cpp: the class                *)
(* PhredGenotypeLikelihoods, a holder of a std::vector<double>.            *)
(*                                                                         *)
(* Memory is a heap of two vectors: the caller's vector (the argument of   *)
(* the constructor, passed by const reference) and the member gl of the    *)
(* instance.  A double is represented by the number of its tenths (the     *)
(* integer 55 stands for 5.5), text by a sequence of one-character         *)
(* strings.                                                                *)
(***************************************************************************)
EXTENDS Integers, Sequences, FiniteSets, TLC

\* ------------------------------------------------------------------ bounds
MaxLen == 2
NumThreads == 2

\* The doubles the caller works with, in tenths: 0.1, 1.0 and -5.5.
Values == {1, 10, -55}

Indices == 0 .. (MaxLen + 1)
Threads == 1 .. NumThreads

BoundedSeqs == UNION {[1 .. n -> Values] : n \in 0 .. MaxLen}

\* Addresses of the two vectors.
CallerAddr == "caller"
ObjAddr == "this.gl"
Addrs == {CallerAddr, ObjAddr}

VARIABLES
  heap,         \* contents of the vector at each address
  glAddr,       \* the vector the member name gl denotes
  constructed,  \* the constructor has run
  S0,           \* the caller's sequence when the constructor ran
  ndebug,       \* the translation unit was compiled with NDEBUG
  crashed,      \* the process has been terminated
  lastOp,       \* last member function called
  lastArg,      \* its argument (get)
  outcome,      \* "none", "normal", "assert_fail", "ub_crash"
  retDouble,    \* value returned by get
  retSize,      \* value returned by genotype_count
  retRef,       \* reference returned by as_vector
  retStr,       \* text returned by toString
  iters,        \* iterations of the loop of the last toString
  tpc,          \* reader threads: position of each thread
  ti,           \* reader threads: loop variable i of toString / argument of get
  toss,         \* reader threads: the ostringstream of toString
  tret          \* reader threads: last returned value

vars == <<heap, glAddr, constructed, S0, ndebug, crashed, lastOp, lastArg,
          outcome, retDouble, retSize, retRef, retStr, iters,
          tpc, ti, toss, tret>>

seqVars == <<lastOp, lastArg, outcome, retDouble, retSize, retRef, retStr, iters>>
thrVars == <<tpc, ti, toss, tret>>

\* The member gl as the member functions see it.
Gl == heap[glAddr]

\* ------------------------------------------------------------ text output
Digit(d) == CASE d = 0 -> "0" [] d = 1 -> "1" [] d = 2 -> "2" [] d = 3 -> "3"
              [] d = 4 -> "4" [] d = 5 -> "5" [] d = 6 -> "6" [] d = 7 -> "7"
              [] d = 8 -> "8" [] d = 9 -> "9"

RECURSIVE IntDigits(_)
IntDigits(n) == IF n < 10 THEN <<Digit(n)>>
                ELSE IntDigits(n \div 10) \o <<Digit(n % 10)>>

Abs(v) == IF v < 0 THEN 0 - v ELSE v

\* operator<<(ostream&, double) with the default format (%g, precision 6)
\* on a value of at most six significant digits given in tenths: the sign,
\* the integer part, and the fraction only when it is not zero.
FormatDouble(v) ==
  (IF v < 0 THEN <<"-">> ELSE <<>>)
  \o IntDigits(Abs(v) \div 10)
  \o (IF Abs(v) % 10 = 0 THEN <<>> ELSE <<".", Digit(Abs(v) % 10)>>)

\* oss << "PhredGenotypeLikelihoods( "
toString_prefix_missing == <<"P","h","r","e","d","G","e","n","o","t","y","p","e",
                     "L","i","k","e","l","i","h","o","o","d","s","(">>
toString_prefix == <<"P","h","r","e","d","G","e","n","o","t","y","p","e",
                     "L","i","k","e","l","i","h","o","o","d","s","("," ">>

\* for (...; i < gl.size(); ...)
toString_cond_short(v, i) == i + 1 < Len(v)
toString_cond(v, i) == i < Len(v)

\* if (i > 0) oss << ","; oss << gl[i];
toString_body_trailing(v, i, oss) == oss \o FormatDouble(v[i + 1]) \o <<",">>
toString_body(v, i, oss) ==
  (IF i > 0 THEN oss \o <<",">> ELSE oss) \o FormatDouble(v[i + 1])

\* oss << ")" << endl;
toString_suffix(oss) == oss \o <<")", "\n">>

\* The loop of toString run to its end from iteration i: the stream and the
\* number of iterations executed.
RECURSIVE toString_loop(_, _, _, _)
toString_loop(v, i, oss, n) ==
  IF toString_cond(v, i)
  THEN toString_loop(v, i + 1, toString_body(v, i, oss), n + 1)
  ELSE [oss |-> oss, iters |-> n]

\* std::string PhredGenotypeLikelihoods::toString() const, on member v
toString_of(v) ==
  LET r == toString_loop(v, 0, toString_prefix, 0)
  IN  [str |-> toString_suffix(r.oss), iters |-> r.iters]

\* ------------------------------------------------------------ accessors
\* assert(genotype < gl.size())
assert_holds(v, genotype) == genotype < Len(v)

\* return this->gl[genotype];
get_value_first(v, genotype) == v[1]
get_value(v, genotype) == v[genotype + 1]

\* return gl.size();
genotype_count_last(v) == Len(v) - 1
genotype_count_value(v) == Len(v)

\* return gl;   (a reference to the member)
as_vector_caller == CallerAddr
as_vector_ref == glAddr

\* What a reader thread holds after a call returned.
Result(op, arg, d, n, r, s) ==
  [op |-> op, arg |-> arg, d |-> d, n |-> n, r |-> r, s |-> s]
NoResult == Result("none", 0, 0, 0, ObjAddr, <<>>)

\* ----------------------------------------------------------------- Init
Init ==
  /\ heap \in [Addrs -> BoundedSeqs]
  /\ heap[ObjAddr] = <<>>
  /\ glAddr = ObjAddr
  /\ constructed = FALSE
  /\ S0 = <<>>
  /\ ndebug \in BOOLEAN
  /\ crashed = FALSE
  /\ lastOp = "none"
  /\ lastArg = 0
  /\ outcome = "none"
  /\ retDouble = 0
  /\ retSize = 0
  /\ retRef = ObjAddr
  /\ retStr = <<>>
  /\ iters = 0
  /\ tpc = [t \in Threads |-> "idle"]
  /\ ti = [t \in Threads |-> 0]
  /\ toss = [t \in Threads |-> <<>>]
  /\ tret = [t \in Threads |-> NoResult]

\* What a call leaves in the result variables.
Returns(op, arg, oc, d, n, r, s, k) ==
  /\ lastOp' = op
  /\ lastArg' = arg
  /\ outcome' = oc
  /\ retDouble' = d
  /\ retSize' = n
  /\ retRef' = r
  /\ retStr' = s
  /\ iters' = k

\* --------------------------------------------------------- constructor
\* The member is declared in phredgenotypelikelihoods.h as a vector held by
\* value, so the mem-initializer gl(gl) copy-constructs it.
MemberHeldByValue == TRUE

\* PhredGenotypeLikelihoods(const vector<double>& gl) : gl(gl) {}
Construct_alias ==
  /\ ~constructed /\ ~crashed
  /\ glAddr' = CallerAddr
  /\ heap' = heap
  /\ S0' = heap[CallerAddr]
  /\ constructed' = TRUE
  /\ Returns("construct", 0, "normal", 0, 0, ObjAddr, <<>>, 0)
  /\ UNCHANGED <<ndebug, crashed, thrVars>>

Construct ==
  /\ ~constructed /\ ~crashed
  /\ IF MemberHeldByValue
     THEN /\ heap' = [heap EXCEPT ![ObjAddr] = heap[CallerAddr]]
          /\ glAddr' = ObjAddr
     ELSE /\ heap' = heap
          /\ glAddr' = CallerAddr
  /\ S0' = heap[CallerAddr]
  /\ constructed' = TRUE
  /\ Returns("construct", 0, "normal", 0, 0, ObjAddr, <<>>, 0)
  /\ UNCHANGED <<ndebug, crashed, thrVars>>

\* ----------------------------------------------------------------- get
\* double get(size_t genotype) const.  With NDEBUG the assert expands to
\* nothing and an index past the end makes gl[genotype] undefined: the call
\* returns whatever lies there or the process is killed.
get(genotype) ==
  /\ constructed /\ ~crashed
  /\ IF assert_holds(Gl, genotype)
     THEN /\ Returns("get", genotype, "normal", get_value(Gl, genotype),
                     0, ObjAddr, <<>>, 0)
          /\ UNCHANGED crashed
     ELSE IF ~ndebug
     THEN /\ Returns("get", genotype, "assert_fail", 0, 0, ObjAddr, <<>>, 0)
          /\ crashed' = TRUE
     ELSE \/ /\ \E garbage \in Values :
                  Returns("get", genotype, "normal", garbage, 0, ObjAddr, <<>>, 0)
             /\ UNCHANGED crashed
          \/ /\ Returns("get", genotype, "ub_crash", 0, 0, ObjAddr, <<>>, 0)
             /\ crashed' = TRUE
  /\ UNCHANGED <<heap, glAddr, constructed, S0, ndebug, thrVars>>

\* ----------------------------------------------------------- as_vector
as_vector ==
  /\ constructed /\ ~crashed
  /\ Returns("as_vector", 0, "normal", 0, 0, as_vector_ref, <<>>, 0)
  /\ UNCHANGED <<heap, glAddr, constructed, S0, ndebug, crashed, thrVars>>

\* ------------------------------------------------------ genotype_count
genotype_count ==
  /\ constructed /\ ~crashed
  /\ Returns("genotype_count", 0, "normal", 0, genotype_count_value(Gl),
             ObjAddr, <<>>, 0)
  /\ UNCHANGED <<heap, glAddr, constructed, S0, ndebug, crashed, thrVars>>

\* ------------------------------------------------------------ toString
toString_consuming ==
  /\ constructed /\ ~crashed
  /\ LET r == toString_of(Gl)
     IN  Returns("toString", 0, "normal", 0, 0, ObjAddr, r.str, r.iters)
  /\ heap' = [heap EXCEPT ![glAddr] = <<>>]
  /\ UNCHANGED <<glAddr, constructed, S0, ndebug, crashed, thrVars>>

toString ==
  /\ constructed /\ ~crashed
  /\ LET r == toString_of(Gl)
     IN  Returns("toString", 0, "normal", 0, 0, ObjAddr, r.str, r.iters)
  /\ UNCHANGED <<heap, glAddr, constructed, S0, ndebug, crashed, thrVars>>

\* ------------------------------------------- the caller's own vector
\* After the constructor has returned the caller goes on using the vector
\* it passed: element assignment, push_back, pop_back, clear.  Such a
\* statement becomes the last operation of the program.
CallerAssign(i, v) ==
  /\ ~crashed
  /\ i < Len(heap[CallerAddr])
  /\ heap' = [heap EXCEPT ![CallerAddr][i + 1] = v]
  /\ Returns("caller", 0, "normal", 0, 0, ObjAddr, <<>>, 0)
  /\ UNCHANGED <<glAddr, constructed, S0, ndebug, crashed, thrVars>>

CallerPushBack(v) ==
  /\ ~crashed
  /\ Len(heap[CallerAddr]) < MaxLen
  /\ heap' = [heap EXCEPT ![CallerAddr] = Append(@, v)]
  /\ Returns("caller", 0, "normal", 0, 0, ObjAddr, <<>>, 0)
  /\ UNCHANGED <<glAddr, constructed, S0, ndebug, crashed, thrVars>>

CallerPopBack ==
  /\ ~crashed
  /\ Len(heap[CallerAddr]) > 0
  /\ heap' = [heap EXCEPT ![CallerAddr] = SubSeq(@, 1, Len(@) - 1)]
  /\ Returns("caller", 0, "normal", 0, 0, ObjAddr, <<>>, 0)
  /\ UNCHANGED <<glAddr, constructed, S0, ndebug, crashed, thrVars>>

CallerClear ==
  /\ ~crashed
  /\ Len(heap[CallerAddr]) > 0
  /\ heap' = [heap EXCEPT ![CallerAddr] = <<>>]
  /\ Returns("caller", 0, "normal", 0, 0, ObjAddr, <<>>, 0)
  /\ UNCHANGED <<glAddr, constructed, S0, ndebug, crashed, thrVars>>

Next ==
  \/ Construct
  \/ \E genotype \in Indices : get(genotype)
  \/ as_vector
  \/ genotype_count
  \/ toString
  \/ \E i \in Indices, v \in Values : CallerAssign(i, v)
  \/ \E v \in Values : CallerPushBack(v)
  \/ CallerPopBack
  \/ CallerClear

Spec == Init /\ [][Next]_vars

\* ------------------------------------------------------ reader threads
\* Several threads call the const member functions of one instance, after
\* the constructor has returned.  A call is entered in one step and then
\* runs one read of the member per step, so that the reads of different
\* threads interleave.
t_call(t, op, genotype) ==
  /\ constructed /\ ~crashed
  /\ tpc[t] = "idle"
  /\ op \in {"get", "as_vector", "genotype_count", "toString"}
  /\ op = "get" => assert_holds(Gl, genotype)
  /\ op # "get" => genotype = 0
  /\ tpc' = [tpc EXCEPT ![t] = op]
  /\ ti' = [ti EXCEPT ![t] = genotype]
  /\ toss' = [toss EXCEPT ![t] = IF op = "toString" THEN toString_prefix ELSE <<>>]
  /\ tret' = [tret EXCEPT ![t] = NoResult]
  /\ UNCHANGED <<heap, glAddr, constructed, S0, ndebug, crashed, seqVars>>

t_get(t) ==
  /\ tpc[t] = "get"
  /\ assert_holds(Gl, ti[t])
  /\ tret' = [tret EXCEPT ![t] =
                Result("get", ti[t], get_value(Gl, ti[t]), 0, ObjAddr, <<>>)]
  /\ tpc' = [tpc EXCEPT ![t] = "idle"]
  /\ ti' = [ti EXCEPT ![t] = 0]
  /\ UNCHANGED <<toss, heap, glAddr, constructed, S0, ndebug, crashed, seqVars>>

t_as_vector(t) ==
  /\ tpc[t] = "as_vector"
  /\ tret' = [tret EXCEPT ![t] = Result("as_vector", 0, 0, 0, as_vector_ref, <<>>)]
  /\ tpc' = [tpc EXCEPT ![t] = "idle"]
  /\ UNCHANGED <<ti, toss, heap, glAddr, constructed, S0, ndebug, crashed, seqVars>>

t_genotype_count(t) ==
  /\ tpc[t] = "genotype_count"
  /\ tret' = [tret EXCEPT ![t] =
                Result("genotype_count", 0, 0, genotype_count_value(Gl), ObjAddr, <<>>)]
  /\ tpc' = [tpc EXCEPT ![t] = "idle"]
  /\ UNCHANGED <<ti, toss, heap, glAddr, constructed, S0, ndebug, crashed, seqVars>>

\* One iteration of the loop of toString.
t_toString_iter_zeroing(t) ==
  /\ tpc[t] = "toString"
  /\ toString_cond(Gl, ti[t])
  /\ toss' = [toss EXCEPT ![t] = toString_body(Gl, ti[t], @)]
  /\ ti' = [ti EXCEPT ![t] = @ + 1]
  /\ heap' = [heap EXCEPT ![glAddr][ti[t] + 1] = 10]
  /\ UNCHANGED <<tpc, tret, glAddr, constructed, S0, ndebug, crashed, seqVars>>

t_toString_iter(t) ==
  /\ tpc[t] = "toString"
  /\ toString_cond(Gl, ti[t])
  /\ toss' = [toss EXCEPT ![t] = toString_body(Gl, ti[t], @)]
  /\ ti' = [ti EXCEPT ![t] = @ + 1]
  /\ UNCHANGED <<tpc, tret, heap, glAddr, constructed, S0, ndebug, crashed, seqVars>>

\* The loop condition fails: the closing text is written and the string
\* returned.
t_toString_return(t) ==
  /\ tpc[t] = "toString"
  /\ ~toString_cond(Gl, ti[t])
  /\ tret' = [tret EXCEPT ![t] =
                Result("toString", 0, 0, 0, ObjAddr, toString_suffix(toss[t]))]
  /\ tpc' = [tpc EXCEPT ![t] = "idle"]
  /\ ti' = [ti EXCEPT ![t] = 0]
  /\ toss' = [toss EXCEPT ![t] = <<>>]
  /\ UNCHANGED <<heap, glAddr, constructed, S0, ndebug, crashed, seqVars>>

NextMT ==
  \/ Construct
  \/ \E t \in Threads, op \in {"get", "as_vector", "genotype_count", "toString"},
        genotype \in Indices : t_call(t, op, genotype)
  \/ \E t \in Threads : t_get(t)
  \/ \E t \in Threads : t_as_vector(t)
  \/ \E t \in Threads : t_genotype_count(t)
  \/ \E t \in Threads : t_toString_iter(t)
  \/ \E t \in Threads : t_toString_return(t)

SpecMT == Init /\ [][NextMT]_vars

\* =================================================================
\* Properties
\* =================================================================
Count(c, s) == Cardinality({k \in 1 .. Len(s) : s[k] = c})

HasPrefix(s, p) == Len(s) >= Len(p) /\ SubSeq(s, 1, Len(p)) = p

\* The text "PhredGenotypeLikelihoods( " and the text "GenotypeLikelihoods( ".
PhredPrefixText == <<"P","h","r","e","d","G","e","n","o","t","y","p","e",
                     "L","i","k","e","l","i","h","o","o","d","s","("," ">>
PlainPrefixText == <<"G","e","n","o","t","y","p","e",
                     "L","i","k","e","l","i","h","o","o","d","s","("," ">>

\* The values of s in index order, each followed by a comma except the last.
RECURSIVE Joined(_)
Joined(s) == IF s = <<>> THEN <<>>
             ELSE IF Len(s) = 1 THEN FormatDouble(s[1])
             ELSE FormatDouble(s[1]) \o <<",">> \o Joined(Tail(s))

\* C1: get(i) with 0 <= i < len(S) returns normally and returns exactly
\* S[i], the element the caller put at position i.
C1_GetReturnsElement ==
  (lastOp = "get" /\ lastArg < Len(S0)) =>
     (outcome = "normal" /\ retDouble = S0[lastArg + 1])

C1_Witness ==
  /\ lastOp = "get" /\ lastArg = 1 /\ outcome = "normal"
  /\ Len(S0) = 2 /\ S0[1] # S0[2]

\* C2: get(index) with index >= genotype_count() never returns a score as a
\* normal return value; it always ends in the fatal outcome.
C2_OutOfRangeNeverReturns ==
  (lastOp = "get" /\ lastArg >= Len(S0)) => outcome # "normal"

\* C3: after construction the stored sequence equals the sequence supplied
\* at construction, whatever member functions have been called since,
\* failed get calls included.
C3_StoredSequenceFixed ==
  constructed => (Gl = S0)

C3_Witness ==
  /\ constructed /\ lastOp = "get" /\ outcome = "assert_fail"
  /\ lastArg = Len(S0) /\ Len(S0) = 2

\* C4: once the caller has changed its own sequence after construction,
\* every later get, as_vector, genotype_count and toString still returns
\* what the sequence held at construction time.
C4_CopyInIsolation ==
  (constructed /\ heap[CallerAddr] # S0) =>
     /\ (lastOp = "get" /\ lastArg < Len(S0)) =>
           (outcome = "normal" /\ retDouble = S0[lastArg + 1])
     /\ lastOp = "genotype_count" => retSize = Len(S0)
     /\ lastOp = "as_vector" => heap[retRef] = S0
     /\ lastOp = "toString" =>
           retStr = PhredPrefixText \o Joined(S0) \o <<")", "\n">>

C4_Witness ==
  /\ constructed /\ Len(S0) = 2 /\ heap[CallerAddr] = <<>>
  /\ lastOp = "get" /\ lastArg = 1 /\ outcome = "normal"

\* C5: genotype_count() returns len(S), for the empty sequence too.
C5_CountIsLength ==
  lastOp = "genotype_count" => (outcome = "normal" /\ retSize = Len(S0))

C5_Witness ==
  lastOp = "genotype_count" /\ Len(S0) = 2 /\ retSize = 2

\* C6: as_vector() returns a view of the same length as S holding the same
\* value at every position.
C6_ViewEqualsSequence ==
  lastOp = "as_vector" =>
     /\ outcome = "normal"
     /\ Len(heap[retRef]) = Len(S0)
     /\ \A k \in 1 .. Len(S0) : heap[retRef][k] = S0[k]

C6_Witness ==
  /\ lastOp = "as_vector" /\ Len(S0) = 2 /\ S0[1] # S0[2]
  /\ heap[CallerAddr] # S0

\* C7 as stated: the text of toString() begins with "GenotypeLikelihoods( "
\* and ends with ")" and a single newline; for the empty sequence it is
\* exactly "GenotypeLikelihoods( )" and a newline.
C7_PlainPrefix ==
  lastOp = "toString" =>
     /\ HasPrefix(retStr, PlainPrefixText)
     /\ retStr[Len(retStr)] = "\n"
     /\ retStr[Len(retStr) - 1] = ")"
     /\ Count("\n", retStr) = 1
     /\ S0 = <<>> => retStr = PlainPrefixText \o <<")", "\n">>

\* C7 amended: the text of toString() begins with
\* "PhredGenotypeLikelihoods( ", and ends with ")" and a single newline; for
\* the empty sequence it is exactly "PhredGenotypeLikelihoods( )" and a
\* newline.
C7_PhredPrefix ==
  lastOp = "toString" =>
     /\ outcome = "normal"
     /\ HasPrefix(retStr, PhredPrefixText)
     /\ Len(retStr) >= Len(PhredPrefixText) + 2
     /\ retStr[Len(retStr)] = "\n"
     /\ retStr[Len(retStr) - 1] = ")"
     /\ Count("\n", retStr) = 1
     /\ S0 = <<>> => retStr = PhredPrefixText \o <<")", "\n">>

C7_Witness ==
  lastOp = "toString" /\ S0 = <<>> /\ Len(retStr) = 28

\* C8: construction and the accessors other than get always complete
\* normally: the constructor can run on any caller sequence, as_vector,
\* genotype_count and toString can run on any live instance and return
\* normally without ending the process, and the loop of toString runs
\* exactly len(S) times.
C8_Total ==
  /\ lastOp \in {"construct", "as_vector", "genotype_count", "toString"} =>
        (outcome = "normal" /\ ~crashed)
  /\ lastOp = "toString" => iters = Len(S0)
  /\ (~constructed /\ ~crashed) => ENABLED Construct
  /\ (constructed /\ ~crashed) =>
        (ENABLED as_vector /\ ENABLED genotype_count /\ ENABLED toString)

C8_Witness ==
  lastOp = "toString" /\ outcome = "normal" /\ Len(S0) = 2 /\ iters = 2

\* C10: in the text of toString() the values stand in index order between
\* the prefix and ")", joined by "," alone: N-1 commas for N >= 1 values
\* and none for N = 0, no comma right after the prefix, and neither a comma
\* nor a space right before ")".
C10_Separators ==
  lastOp = "toString" =>
     LET N == Len(S0)
         L == Len(retStr)
         P == Len(PhredPrefixText)
     IN  /\ L >= P + 2
         /\ SubSeq(retStr, P + 1, L - 2) = Joined(S0)
         /\ Count(",", retStr) = (IF N >= 1 THEN N - 1 ELSE 0)
         /\ Count(" ", retStr) = 1
         /\ N >= 1 => (retStr[P + 1] # "," /\ retStr[L - 2] \notin {",", " "})

C10_Witness ==
  /\ lastOp = "toString" /\ Len(S0) = 2 /\ S0[1] # S0[2]
  /\ Count(",", retStr) = 1

\* C9: with several reader threads interleaving their calls on one
\* constructed instance, every call returns what it returns when run alone
\* on the constructed sequence, and no step writes the stored sequence (no
\* write, hence no read/write race).
ReadersAgree ==
  \A t \in Threads :
     /\ tret[t].op = "get" => tret[t].d = S0[tret[t].arg + 1]
     /\ tret[t].op = "genotype_count" => tret[t].n = Len(S0)
     /\ tret[t].op = "as_vector" => heap[tret[t].r] = S0
     /\ tret[t].op = "toString" =>
           tret[t].s = PhredPrefixText \o Joined(S0) \o <<")", "\n">>

C9_ReadersRaceFree ==
  [](ReadersAgree) /\ [][constructed => (heap' = heap)]_vars

C9_Witness ==
  /\ Len(S0) = 2
  /\ tret[1].op = "toString"
  /\ tpc[2] = "toString" /\ ti[2] = 1

====
